---- MODULE Spec2Model ----
(***************************************************************************)
(* Model of src/av_encode_video1.cpp: the single function main(), a        *)
(* sequential demux -> encode -> mux pipeline over the FFmpeg library.      *)
(* Every library call is a collaborator whose outcome (success or failure, *)
(* a packet or "nothing ready") is chosen nondeterministically; what the   *)
(* program does with each outcome is taken from the source line by line.   *)
(***************************************************************************)
EXTENDS Integers, Sequences, FiniteSets, TLC

\* ---------------------------------------------------------------- bounds
\* Largest number of packets av_read_frame yields before it reports the end.
MaxPackets == 2
\* Largest number of elementary streams in the input container.
MaxStreams == 2
\* Largest argc the program is started with (argc = 4 is the valid arity).
MaxArgc == 5

\* Largest number of streams the freshly allocated output context holds
\* (the program itself never adds one).
MaxOutStreams == 1
\* Largest timestamp the encoder puts on a packet.
MaxPts == 2

\* ------------------------------------------------------- library values
\* AVERROR_STREAM_NOT_FOUND stands for any negative library error other
\* than -1; the program only ever compares the result with -1 (line 86).
AVERROR_STREAM_NOT_FOUND == -2
\* Possible results of av_find_best_stream on an output context with nb
\* streams: an error, or the index of one of its streams.
BestStreamResults(nb) == {-1, AVERROR_STREAM_NOT_FOUND} \cup (0..(nb - 1))

\* AV_NOPTS_VALUE stands for INT64_MIN, the "no timestamp" mark: it lies
\* below every timestamp of the model.
AV_NOPTS_VALUE == -1000000
\* Timestamps the encoder may put on the packets it returns.
PtsValues == {AV_NOPTS_VALUE} \cup (1..MaxPts)
\* Stream time bases <<num, den>>.
TimeBases == {<<1, 1>>, <<1, 3>>}

\* Wide integers are written in thousands and units, [k, u] standing for
\* k * 1000 + u with 0 <= u < 1000, so that values around 2^31 and 2^32 can
\* be compared and wrapped.
Wide(k, u) == [k |-> k, u |-> u]
WideLess(a, b) == a.k < b.k \/ (a.k = b.k /\ a.u < b.u)
WideNorm(k, u) == Wide(k + (u \div 1000), u % 1000)
WideAdd(a, b) == WideNorm(a.k + b.k, a.u + b.u)
WideSub(a, b) == WideNorm(a.k - b.k, a.u - b.u)
INT_MAX == Wide(2147483, 647)
INT_MIN == Wide(-2147484, 352)
Two32 == Wide(4294967, 296)
InInt(a) == ~WideLess(a, INT_MIN) /\ ~WideLess(INT_MAX, a)

\* The third argument, as the decimal integer its text denotes.
BitrateArgs == {Wide(0, 500), Wide(2147, 484), Wide(2147483, 648)}

\* Line 16: std::stoi succeeds exactly on values an int can hold.
StoiInRange(arg) == InInt(arg)
StoiValue(arg) == arg.k * 1000 + arg.u

\* Two's-complement wrap of a wide value into the range of int.
RECURSIVE WrapInt(_)
WrapInt(a) ==
    IF WideLess(INT_MAX, a) THEN WrapInt(WideSub(a, Two32))
    ELSE IF WideLess(a, INT_MIN) THEN WrapInt(WideAdd(a, Two32))
    ELSE a

\* Line 69: bitrate * 1000 in int.  The exact product where an int holds
\* it; on signed overflow the behaviour is undefined and a build either
\* wraps or, widening the multiplication, stores the exact product.
ExactProduct(b) == Wide(b, 0)
BitRateProducts(b) ==
    IF InInt(ExactProduct(b)) THEN {ExactProduct(b)}
    ELSE {WrapInt(ExactProduct(b)), ExactProduct(b)}

\* av_rescale_q: a * src / dst rounded to nearest, halves away from zero.
RescaleQ(a, src, dst) ==
    LET b == src[1] * dst[2]
        c == src[2] * dst[1]
        m == IF a < 0 THEN -a ELSE a
        q == (2 * m * b + c) \div (2 * c)
    IN  IF a < 0 THEN -q ELSE q

\* av_packet_rescale_ts on the pts: AV_NOPTS_VALUE is left alone.
RescaleTs(pts, src, dst) ==
    IF pts = AV_NOPTS_VALUE THEN pts ELSE RescaleQ(pts, src, dst)

StreamTypes == {"video", "audio"}

\* All input containers: sequences of stream types of length 0..MaxStreams.
InputContainers == UNION {[1..n -> StreamTypes] : n \in 0..MaxStreams}

VARIABLES
    pc,                 \* position in main()
    argc,               \* argument count the process was started with
    in_streams,         \* input_format_context->streams[i]->codecpar->codec_type
    in_tb,              \* time base of the input streams
    bitrate,            \* line 16
    bit_rate,           \* video_encoder_ctx->bit_rate
    opened_bit_rate,    \* bit_rate the encoder session was opened with
    out_nb_streams,     \* output_format_context->nb_streams
    out_tb,             \* time base of the output streams
    video_stream_index, \* line 35
    video_stream_id,    \* line 85
    outNoFile,          \* output_format_context->oformat->flags & AVFMT_NOFILE
    acquired,           \* resources obtained from the library so far
    released,           \* resources given back to the library so far
    failed,             \* library calls that reported a failure
    nRead,              \* packets returned by av_read_frame
    nSelRead,           \* those of them that belong to the selected stream
    pkt_stream,         \* encoder_packet->stream_index of the packet read
    input_frame,        \* contents of *input_frame
    submitted,          \* frames passed to avcodec_send_frame, in order
    nAccepted,          \* frames the encoder accepted
    encBuf,             \* packets held inside the encoder, oldest first
    eos,                \* encoder was told the stream has ended
    emitted,            \* packets returned by avcodec_receive_packet
    pkt,                \* *encoder_packet as the encoder filled it
    written,            \* packets the muxer wrote
    handed,             \* packets passed to av_interleaved_write_frame
    mux_pts,            \* pts of the last packet passed to the muxer
    muxLog,             \* calls made on the muxer, in order
    initDone,           \* av_register_all was called
    exited, exitCode,   \* main() returned, with this value
    stdout, stderr      \* lines printed

vars == <<pc, argc, in_streams, in_tb, bitrate, bit_rate, opened_bit_rate,
          out_nb_streams, out_tb, video_stream_index, video_stream_id, outNoFile,
          acquired, released, failed, nRead, nSelRead, pkt_stream, input_frame,
          submitted, nAccepted, encBuf, eos, emitted, pkt, written, handed,
          mux_pts, muxLog, initDone, exited, exitCode, stdout, stderr>>

\* groups used in UNCHANGED
setupVars == <<video_stream_index, video_stream_id, outNoFile>>
resVars   == <<acquired, released>>
cfgVars   == <<in_tb, bitrate, bit_rate, opened_bit_rate, out_nb_streams, out_tb>>
srcVars   == <<nRead, nSelRead, pkt_stream>>
encVars   == <<submitted, nAccepted, encBuf, eos, emitted, pkt>>
muxVars   == <<written, handed, mux_pts, muxLog>>
ioVars    == <<stdout, stderr>>
exitVars  == <<exited, exitCode>>
fixedVars == <<argc, in_streams, initDone, input_frame>>

held == acquired \ released

\* ------------------------------------------------------ pure helpers

\* The stream search with the index initialised to 0 instead of -1.
FindVideoStreamIndex_DefaultZero(streams) ==
    IF \E i \in 1..Len(streams) : streams[i] = "video"
    THEN CHOOSE i \in 0..(Len(streams) - 1) :
             /\ streams[i + 1] = "video"
             /\ \A j \in 0..(i - 1) : streams[j + 1] # "video"
    ELSE 0

\* Lines 36-41: the loop over the input streams from index i on.
RECURSIVE FirstVideoFrom(_, _)
FirstVideoFrom(streams, i) ==
    IF i >= Len(streams) THEN -1
    ELSE IF streams[i + 1] = "video" THEN i
    ELSE FirstVideoFrom(streams, i + 1)

\* Lines 35-41: index of the first video stream (0-based), -1 if none.
FindVideoStreamIndex(streams) == FirstVideoFrom(streams, 0)

\* avcodec_receive_packet: may it return 0 (a packet) / nonzero (nothing)?
\* A packet can only come out of the encoder's buffer.  Without an
\* end-of-stream signal the encoder is free to keep buffered packets back
\* (lookahead, frame reordering); after the signal it has to hand them out.
CanReceivePacket(buf, ended) == buf # <<>>
CanReceiveNothing(buf, ended) == buf = <<>> \/ ~ended

\* Exit statuses of a process killed by SIGABRT (uncaught exception) and
\* by SIGSEGV (invalid memory access).
EXIT_SIGABRT == 134
EXIT_SIGSEGV == 139

\* The packet buffer before the encoder has filled it.
NoPacket == [id |-> 0, pts |-> AV_NOPTS_VALUE, rescales |-> 0,
             src |-> <<1, 1>>, dst |-> <<1, 1>>]

\* The muxer's view of the timestamps before any packet has reached it.
NoMuxPts == [any |-> FALSE, last |-> AV_NOPTS_VALUE]

\* A return -1 out of main(): nothing is released on the way (lines 25, 31, ...).
ReturnFailure(stage) ==
    /\ pc' = "done"
    /\ exited' = TRUE
    /\ exitCode' = -1
    /\ stderr' = stderr \cup {stage}
    /\ stdout' = stdout

Continue(next) ==
    /\ pc' = next
    /\ UNCHANGED <<exitVars, ioVars>>

\* ---------------------------------------------------------------- Init
Init ==
    /\ pc = "start"
    /\ argc \in 1..MaxArgc
    /\ in_streams \in InputContainers
    /\ in_tb \in TimeBases
    /\ bitrate = 0
    /\ bit_rate = Wide(0, 0)
    /\ opened_bit_rate = Wide(0, 0)
    /\ out_nb_streams = 0
    /\ out_tb = <<1, 1>>
    /\ video_stream_index = -1
    /\ video_stream_id = -1
    /\ outNoFile = FALSE
    /\ acquired = {}
    /\ released = {}
    /\ failed = {}
    /\ nRead = 0
    /\ nSelRead = 0
    /\ pkt_stream = -1
    /\ input_frame = "unallocated"
    /\ submitted = <<>>
    /\ nAccepted = 0
    /\ encBuf = <<>>
    /\ eos = FALSE
    /\ emitted = <<>>
    /\ pkt = NoPacket
    /\ written = <<>>
    /\ handed = <<>>
    /\ mux_pts = NoMuxPts
    /\ muxLog = <<>>
    /\ initDone = FALSE
    /\ exited = FALSE
    /\ exitCode = 0
    /\ stdout = {}
    /\ stderr = {}

\* ------------------------------------------------------------- setup

\* The arity check written as "argc < 4": extra arguments are let through.
CheckArgs_FewerThanFour ==
    /\ pc = "start"
    /\ IF argc < 4
       THEN /\ pc' = "done"
            /\ exited' = TRUE
            /\ exitCode' = -1
            /\ stdout' = stdout \cup {"usage"}
            /\ UNCHANGED <<stderr, initDone, bitrate>>
       ELSE \E arg \in BitrateArgs :
              IF StoiInRange(arg)
              THEN /\ bitrate' = StoiValue(arg)
                   /\ initDone' = TRUE
                   /\ Continue("open_input")
              ELSE /\ pc' = "done"
                   /\ exited' = TRUE
                   /\ exitCode' = EXIT_SIGABRT
                   /\ UNCHANGED <<ioVars, initDone, bitrate>>
    /\ UNCHANGED <<argc, in_streams, input_frame, in_tb, bit_rate,
                   opened_bit_rate, out_nb_streams, out_tb, setupVars, resVars,
                   failed, srcVars, encVars, muxVars>>

\* Lines 9-19: arity check, std::stoi of the third argument (an uncaught
\* std::out_of_range ends the process), then av_register_all().
CheckArgs ==
    /\ pc = "start"
    /\ IF argc # 4
       THEN /\ pc' = "done"
            /\ exited' = TRUE
            /\ exitCode' = -1
            /\ stdout' = stdout \cup {"usage"}
            /\ UNCHANGED <<stderr, initDone, bitrate>>
       ELSE \E arg \in BitrateArgs :
              IF StoiInRange(arg)
              THEN /\ bitrate' = StoiValue(arg)
                   /\ initDone' = TRUE
                   /\ Continue("open_input")
              ELSE /\ pc' = "done"
                   /\ exited' = TRUE
                   /\ exitCode' = EXIT_SIGABRT
                   /\ UNCHANGED <<ioVars, initDone, bitrate>>
    /\ UNCHANGED <<argc, in_streams, input_frame, in_tb, bit_rate,
                   opened_bit_rate, out_nb_streams, out_tb, setupVars, resVars,
                   failed, srcVars, encVars, muxVars>>

\* A setup call that acquires resource res on success and returns -1 on failure.
SetupStep(at, stage, res, next) ==
    /\ pc = at
    /\ \E ok \in BOOLEAN :
         IF ok
         THEN /\ acquired' = acquired \cup res
              /\ failed' = failed
              /\ Continue(next)
         ELSE /\ acquired' = acquired
              /\ failed' = failed \cup {stage}
              /\ ReturnFailure(stage)
    /\ UNCHANGED released

\* Lines 22-26: avformat_open_input.
OpenInput ==
    /\ SetupStep("open_input", "open_input", {"input"}, "find_stream_info")
    /\ UNCHANGED <<fixedVars, cfgVars, setupVars, srcVars, encVars, muxVars>>

\* Lines 29-32: avformat_find_stream_info.
FindStreamInfo ==
    /\ SetupStep("find_stream_info", "find_stream_info", {}, "find_video_stream")
    /\ UNCHANGED <<fixedVars, cfgVars, setupVars, srcVars, encVars, muxVars>>

\* Lines 35-45: select the first video stream or fail.
FindVideoStream ==
    /\ pc = "find_video_stream"
    /\ video_stream_index' = FindVideoStreamIndex(in_streams)
    /\ IF video_stream_index' = -1
       THEN /\ failed' = failed \cup {"find_video_stream"}
            /\ ReturnFailure("find_video_stream")
       ELSE /\ failed' = failed
            /\ Continue("find_decoder")
    /\ UNCHANGED <<fixedVars, cfgVars, video_stream_id, outNoFile, resVars, srcVars,
                   encVars, muxVars>>

\* Lines 48-53: avcodec_find_decoder.
FindDecoder ==
    /\ SetupStep("find_decoder", "find_decoder", {}, "alloc_encoder_ctx")
    /\ UNCHANGED <<fixedVars, cfgVars, setupVars, srcVars, encVars, muxVars>>

\* Lines 56-60: avcodec_alloc_context3.
AllocEncoderCtx ==
    /\ SetupStep("alloc_encoder_ctx", "alloc_encoder_ctx", {"encoder"},
                 "params_to_ctx")
    /\ UNCHANGED <<fixedVars, cfgVars, setupVars, srcVars, encVars, muxVars>>

\* Lines 63-66: avcodec_parameters_to_context.
ParamsToCtx ==
    /\ SetupStep("params_to_ctx", "params_to_ctx", {}, "open_encoder")
    /\ UNCHANGED <<fixedVars, cfgVars, setupVars, srcVars, encVars, muxVars>>

\* Lines 69-75: set the bit rate, avcodec_open2.
OpenEncoder ==
    /\ SetupStep("open_encoder", "open_encoder", {}, "alloc_output")
    /\ \E p \in BitRateProducts(bitrate) :
         /\ bit_rate' = p
         /\ opened_bit_rate' = IF pc' = "done" THEN opened_bit_rate ELSE p
    /\ UNCHANGED <<fixedVars, in_tb, bitrate, out_nb_streams, out_tb, setupVars,
                   srcVars, encVars, muxVars>>

\* Lines 78-82: avformat_alloc_output_context2; the format decides
\* AVFMT_NOFILE, the library decides what streams the new context holds.
AllocOutput ==
    /\ SetupStep("alloc_output", "alloc_output", {"output_ctx"}, "find_best_stream")
    /\ \E nf \in BOOLEAN : outNoFile' = (nf /\ pc' # "done")
    /\ IF pc' = "done"
       THEN UNCHANGED <<out_nb_streams, out_tb>>
       ELSE /\ out_nb_streams' \in 0..MaxOutStreams
            /\ out_tb' \in IF out_nb_streams' = 0 THEN {out_tb} ELSE TimeBases
    /\ UNCHANGED <<fixedVars, in_tb, bitrate, bit_rate, opened_bit_rate,
                   video_stream_index, video_stream_id, srcVars, encVars, muxVars>>

\* Lines 85-89: av_find_best_stream on the output; only -1 is taken as failure.
FindBestStream ==
    /\ pc = "find_best_stream"
    /\ \E r \in BestStreamResults(out_nb_streams) :
         /\ video_stream_id' = r
         /\ failed' = IF r < 0 THEN failed \cup {"find_best_stream"} ELSE failed
         /\ IF r = -1
            THEN ReturnFailure("find_best_stream")
            ELSE Continue("alloc_packet")
    /\ UNCHANGED <<fixedVars, cfgVars, video_stream_index, outNoFile, resVars, srcVars,
                   encVars, muxVars>>

\* Lines 92-96: av_packet_alloc.
AllocPacket ==
    /\ SetupStep("alloc_packet", "alloc_packet", {"packet"}, "alloc_input_frame")
    /\ UNCHANGED <<fixedVars, cfgVars, setupVars, srcVars, encVars, muxVars>>

\* Lines 99-103: av_frame_alloc; the frame holds no picture.
AllocInputFrame ==
    /\ SetupStep("alloc_input_frame", "alloc_input_frame", {"input_frame"},
                 "sws_get_context")
    /\ input_frame' = IF pc' = "done" THEN input_frame ELSE "blank"
    /\ UNCHANGED <<argc, in_streams, initDone, cfgVars, setupVars, srcVars,
                   encVars, muxVars>>

\* Lines 105-113: sws_getContext.
SwsGetContext ==
    /\ SetupStep("sws_get_context", "sws_get_context", {"sws"}, "alloc_output_frame")
    /\ UNCHANGED <<fixedVars, cfgVars, setupVars, srcVars, encVars, muxVars>>

\* Lines 115-119: av_frame_alloc for the output frame.
AllocOutputFrame ==
    /\ SetupStep("alloc_output_frame", "alloc_output_frame", {"output_frame"},
                 "open_output")
    /\ UNCHANGED <<fixedVars, cfgVars, setupVars, srcVars, encVars, muxVars>>

\* Lines 122-131: avio_alloc_context (result unchecked) or avio_open.
OpenOutput ==
    /\ pc = "open_output"
    /\ IF outNoFile
       THEN /\ acquired' = acquired \cup {"output_io"}
            /\ failed' = failed
            /\ Continue("write_header")
            /\ UNCHANGED released
       ELSE SetupStep("open_output", "open_output", {"output_io"}, "write_header")
    /\ UNCHANGED <<fixedVars, cfgVars, setupVars, srcVars, encVars, muxVars>>

\* The header write with the "return -1" of line 136 left out.
WriteHeader_NoReturn ==
    /\ pc = "write_header"
    /\ \E ok \in BOOLEAN :
         /\ muxLog' = Append(muxLog, IF ok THEN "header_ok" ELSE "header_fail")
         /\ failed' = IF ok THEN failed ELSE failed \cup {"write_header"}
         /\ stderr' = IF ok THEN stderr ELSE stderr \cup {"write_header"}
    /\ pc' = "read"
    /\ UNCHANGED <<fixedVars, cfgVars, setupVars, resVars, srcVars, encVars,
                   written, handed, mux_pts, exitVars, stdout>>

\* Lines 134-137: avformat_write_header.
WriteHeader ==
    /\ pc = "write_header"
    /\ \E ok \in BOOLEAN :
         IF ok
         THEN /\ muxLog' = Append(muxLog, "header_ok")
              /\ failed' = failed
              /\ Continue("read")
         ELSE /\ muxLog' = Append(muxLog, "header_fail")
              /\ failed' = failed \cup {"write_header"}
              /\ ReturnFailure("write_header")
    /\ UNCHANGED <<fixedVars, cfgVars, setupVars, resVars, srcVars, encVars,
                   written, handed, mux_pts>>

\* --------------------------------------------------------- Streaming

\* The read loop without the stream-index test of line 141: every packet
\* read is treated as one of the selected stream.
ReadFrame_NoStreamTest ==
    /\ pc = "read"
    /\ \/ /\ nRead < MaxPackets
          /\ \E s \in 0..(Len(in_streams) - 1) :
               /\ pkt_stream' = s
               /\ pc' = "send"
               /\ nSelRead' = IF s = video_stream_index THEN nSelRead + 1
                              ELSE nSelRead
          /\ nRead' = nRead + 1
       \/ /\ pc' = "flush"
          /\ UNCHANGED <<nRead, nSelRead, pkt_stream>>
    /\ UNCHANGED <<fixedVars, cfgVars, setupVars, resVars, failed, encVars,
                   muxVars, exitVars, ioVars>>

\* Lines 140-141: av_read_frame, then the stream-index test.  A negative
\* result (end of file or read error) leaves the loop.
ReadFrame ==
    /\ pc = "read"
    /\ \/ /\ nRead < MaxPackets
          /\ \E s \in 0..(Len(in_streams) - 1) :
               /\ pkt_stream' = s
               /\ pc' = IF s = video_stream_index THEN "send" ELSE "unref"
               /\ nSelRead' = IF s = video_stream_index THEN nSelRead + 1
                              ELSE nSelRead
          /\ nRead' = nRead + 1
       \/ /\ pc' = "flush"
          /\ UNCHANGED <<nRead, nSelRead, pkt_stream>>
    /\ UNCHANGED <<fixedVars, cfgVars, setupVars, resVars, failed, encVars, muxVars,
                   exitVars, ioVars>>

\* Lines 142-145: avcodec_send_frame(video_encoder_ctx, input_frame); a
\* failure is logged and breaks out of the read loop.
SendFrame ==
    /\ pc = "send"
    /\ submitted' = Append(submitted, input_frame)
    /\ \E ok \in BOOLEAN :
         IF ok
         THEN /\ nAccepted' = nAccepted + 1
              /\ encBuf' = Append(encBuf, nAccepted + 1)
              /\ pc' = "receive"
              /\ UNCHANGED <<failed, stderr>>
         ELSE /\ failed' = failed \cup {"send_frame"}
              /\ stderr' = stderr \cup {"send_frame"}
              /\ pc' = "flush"
              /\ UNCHANGED <<nAccepted, encBuf>>
    /\ UNCHANGED <<fixedVars, cfgVars, setupVars, resVars, srcVars, eos, emitted,
                   pkt, muxVars, exitVars, stdout>>

\* Lines 147 and 157: avcodec_receive_packet as a loop condition.
ReceivePacket(at, gotPacket, gotNothing) ==
    /\ pc = at
    /\ \/ /\ CanReceivePacket(encBuf, eos)
          /\ emitted' = Append(emitted, Head(encBuf))
          /\ encBuf' = Tail(encBuf)
          /\ \E p \in PtsValues :
               pkt' = [NoPacket EXCEPT !.id = Head(encBuf), !.pts = p]
          /\ pc' = gotPacket
       \/ /\ CanReceiveNothing(encBuf, eos)
          /\ pc' = gotNothing
          /\ UNCHANGED <<emitted, encBuf, pkt>>
    /\ UNCHANGED <<fixedVars, cfgVars, setupVars, resVars, failed, srcVars, submitted,
                   nAccepted, eos, muxVars, exitVars, ioVars>>

\* Does output_format_context->streams[id] exist?
OutputStreamExists(id) == 0 <= id /\ id < out_nb_streams

\* Lines 148 and 158: the time base read through
\* output_format_context->streams[video_stream_id].  Where that stream does
\* not exist the read is out of bounds: any value may come back.
DstTimeBases ==
    IF OutputStreamExists(video_stream_id) THEN {out_tb} ELSE TimeBases

\* The write step with the packet passed to the muxer twice.
RescaleAndWrite_Twice(at, next) ==
    /\ pc = at
    /\ \/ /\ \E dst \in DstTimeBases :
               LET rescaled == [pkt EXCEPT !.pts = RescaleTs(pkt.pts, in_tb, dst),
                                           !.rescales = @ + 1,
                                           !.src = in_tb, !.dst = dst]
               IN  /\ pkt' = rescaled
                   /\ handed' = handed \o <<rescaled.id, rescaled.id>>
                   /\ mux_pts' = [any |-> TRUE, last |-> rescaled.pts]
          /\ \E ok \in BOOLEAN :
               IF ok
               THEN /\ written' = written \o <<pkt.id, pkt.id>>
                    /\ muxLog' = muxLog \o <<"write_ok", "write_ok">>
                    /\ failed' = failed
               ELSE /\ written' = written
                    /\ muxLog' = muxLog \o <<"write_fail", "write_fail">>
                    /\ failed' = failed \cup {"write_frame"}
          /\ pc' = next
          /\ UNCHANGED exitVars
       \/ /\ ~OutputStreamExists(video_stream_id)
          /\ pc' = "done"
          /\ exited' = TRUE
          /\ exitCode' = EXIT_SIGSEGV
          /\ UNCHANGED <<pkt, handed, mux_pts, written, muxLog, failed>>
    /\ UNCHANGED <<fixedVars, cfgVars, setupVars, resVars, srcVars, submitted,
                   nAccepted, encBuf, eos, emitted, ioVars>>

\* Lines 148-149 and 158-159: av_packet_rescale_ts, then
\* av_interleaved_write_frame, whose result is not looked at.  The
\* out-of-bounds read of a stream that does not exist may also end the
\* process with an invalid memory access.
RescaleAndWrite(at, next) ==
    /\ pc = at
    /\ \/ /\ \E dst \in DstTimeBases :
               LET rescaled == [pkt EXCEPT !.pts = RescaleTs(pkt.pts, in_tb, dst),
                                           !.rescales = @ + 1,
                                           !.src = in_tb, !.dst = dst]
               IN  /\ pkt' = rescaled
                   /\ handed' = Append(handed, rescaled.id)
                   /\ mux_pts' = [any |-> TRUE, last |-> rescaled.pts]
          /\ \E ok \in BOOLEAN :
               IF ok
               THEN /\ written' = Append(written, pkt.id)
                    /\ muxLog' = Append(muxLog, "write_ok")
                    /\ failed' = failed
               ELSE /\ written' = written
                    /\ muxLog' = Append(muxLog, "write_fail")
                    /\ failed' = failed \cup {"write_frame"}
          /\ pc' = next
          /\ UNCHANGED exitVars
       \/ /\ ~OutputStreamExists(video_stream_id)
          /\ pc' = "done"
          /\ exited' = TRUE
          /\ exitCode' = EXIT_SIGSEGV
          /\ UNCHANGED <<pkt, handed, mux_pts, written, muxLog, failed>>
    /\ UNCHANGED <<fixedVars, cfgVars, setupVars, resVars, srcVars, submitted,
                   nAccepted, encBuf, eos, emitted, ioVars>>

\* Line 147: drain the encoder after a submission.
DrainReceive == ReceivePacket("receive", "write", "unref")

\* Lines 148-149.
DrainWrite == RescaleAndWrite("write", "receive")

\* Line 153: av_packet_unref, back to the loop condition.
UnrefPacket ==
    /\ pc = "unref"
    /\ pkt_stream' = -1
    /\ pkt' = NoPacket
    /\ pc' = "read"
    /\ UNCHANGED <<fixedVars, cfgVars, setupVars, resVars, failed, nRead,
                   nSelRead, submitted, nAccepted, encBuf, eos, emitted,
                   muxVars, exitVars, ioVars>>

\* ---------------------------------------------------------- Flushing

\* Line 157: the flush loop starts draining straight away.
FlushReceive == ReceivePacket("flush", "flush_write", "trailer")

\* Lines 158-159.
FlushWrite == RescaleAndWrite("flush_write", "flush")

\* --------------------------------------------------------- Finalized

\* Line 163: av_write_trailer, result not looked at.
WriteTrailer ==
    /\ pc = "trailer"
    /\ muxLog' = Append(muxLog, "trailer")
    /\ \E ok \in BOOLEAN :
         failed' = IF ok THEN failed ELSE failed \cup {"write_trailer"}
    /\ pc' = "teardown"
    /\ UNCHANGED <<fixedVars, cfgVars, setupVars, resVars, srcVars, encVars,
                   written, handed, mux_pts, exitVars, ioVars>>

\* The resources lines 166-181 give back.
TeardownReleases ==
    {"output_io", "output_frame", "sws", "input_frame", "packet", "encoder",
     "input"}

\* Lines 166-181: close the output file, free frames, scaler, packet,
\* encoder context, close the input.
Teardown ==
    /\ pc = "teardown"
    /\ released' = released \cup TeardownReleases
    /\ pc' = "return"
    /\ UNCHANGED <<fixedVars, cfgVars, setupVars, acquired, failed, srcVars, encVars,
                   muxVars, exitVars, ioVars>>

\* Lines 183-185: print the confirmation and return 0.
ReturnSuccess ==
    /\ pc = "return"
    /\ stdout' = stdout \cup {"success"}
    /\ exited' = TRUE
    /\ exitCode' = 0
    /\ pc' = "done"
    /\ UNCHANGED <<fixedVars, cfgVars, setupVars, resVars, failed, srcVars, encVars,
                   muxVars, stderr>>

\* ---------------------------------------------------------------- Next
Next ==
    \/ CheckArgs
    \/ OpenInput
    \/ FindStreamInfo
    \/ FindVideoStream
    \/ FindDecoder
    \/ AllocEncoderCtx
    \/ ParamsToCtx
    \/ OpenEncoder
    \/ AllocOutput
    \/ FindBestStream
    \/ AllocPacket
    \/ AllocInputFrame
    \/ SwsGetContext
    \/ AllocOutputFrame
    \/ OpenOutput
    \/ WriteHeader
    \/ ReadFrame
    \/ SendFrame
    \/ DrainReceive
    \/ DrainWrite
    \/ UnrefPacket
    \/ FlushReceive
    \/ FlushWrite
    \/ WriteTrailer
    \/ Teardown
    \/ ReturnSuccess

Spec == Init /\ [][Next]_vars

\* The run always takes its next step until main() has returned: the
\* program is one sequential thread and every library call returns.
FairSpec == Spec /\ WF_vars(Next)

\* ------------------------------------------------- the spec's states
Streaming == pc \in {"read", "send", "receive", "write", "unref"}
Flushing  == pc \in {"flush", "flush_write"}
Finalized == pc \in {"trailer", "teardown", "return"} \/ (pc = "done" /\ exitCode = 0)

TypeOK ==
    /\ argc \in 1..MaxArgc
    /\ in_streams \in InputContainers
    /\ video_stream_index \in -1..(MaxStreams - 1)
    /\ video_stream_id \in BestStreamResults(MaxOutStreams)
    /\ out_nb_streams \in 0..MaxOutStreams
    /\ in_tb \in TimeBases /\ out_tb \in TimeBases
    /\ nSelRead \in 0..nRead
    /\ outNoFile \in BOOLEAN
    /\ released \subseteq acquired
    /\ nRead \in 0..MaxPackets
    /\ nAccepted \in 0..MaxPackets
    /\ Len(emitted) + Len(encBuf) = nAccepted
    /\ exited \in BOOLEAN
    /\ exitCode \in {-1, 0, EXIT_SIGABRT, EXIT_SIGSEGV}

\* ==================================================================
\* Properties
\* ==================================================================

Range(seq) == {seq[i] : i \in 1..Len(seq)}

\* The setup steps whose failure the program tests for with "return -1".
SetupStages ==
    {"open_input", "find_stream_info", "find_video_stream", "find_decoder",
     "alloc_encoder_ctx", "params_to_ctx", "open_encoder", "alloc_output",
     "open_output", "write_header"}

SetupFailed == failed \cap SetupStages # {}
SendFailed  == "send_frame" \in failed
WriteFailed == "write_frame" \in failed
NoVideoStream == \A i \in 1..Len(in_streams) : in_streams[i] # "video"
PacketWrites == {i \in 1..Len(muxLog) : muxLog[i] \in {"write_ok", "write_fail"}}
HeaderWrites == {i \in 1..Len(muxLog) : muxLog[i] \in {"header_ok", "header_fail"}}
TrailerWrites == {i \in 1..Len(muxLog) : muxLog[i] = "trailer"}

\* C1: when main() has returned, on whatever path, every resource that was
\* acquired during the run has been released.
C1_AllReleasedOnExit ==
    exited => held = {}

\* C2: exit status 0 and the confirmation message occur only in runs where
\* no setup step, no encoder submission and no muxer write failed.
C2_SuccessOnlyWithoutFailure ==
    (exited /\ (exitCode = 0 \/ "success" \in stdout))
        => (~SetupFailed /\ ~SendFailed /\ ~WriteFailed)

\* C3: every frame passed to the encoder is a decoded and scaled frame.
C3_OnlyScaledFramesSubmitted ==
    \A i \in 1..Len(submitted) : submitted[i] = "scaled"

\* C4: the encoder has been signalled end-of-stream whenever the flush
\* drain is running or has finished.
C4_EosSignalledBeforeFlush ==
    (Flushing \/ pc = "trailer") => eos

\* C5: once the trailer is written the encoder holds no buffered packet:
\* everything it accepted has come out of a drain.
C5_NothingBufferedAtTrailer ==
    (TrailerWrites # {}) => (encBuf = <<>> /\ Len(emitted) = nAccepted)

\* C6: after a failed encoder submission no packet is read and no frame is
\* submitted any more, the program does not stay in Streaming, and when it
\* ends the trailer has been written and the teardown has been executed.
C6_SendFailureBreaksThenFinalizes ==
    [][SendFailed =>
         /\ nRead' = nRead
         /\ submitted' = submitted
         /\ ~Streaming'
         /\ exited' => /\ TrailerWrites' # {}
                       /\ (acquired' \cap TeardownReleases) \subseteq released']_vars

\* C7: after a failed muxer write no further packet is read from the
\* source, and the run does not end with status 0.
C7_WriteFailureAbortsRun ==
    [][WriteFailed => (nRead' = nRead /\ (exited' => exitCode' # 0))]_vars

\* C8: the header is written at most once; every packet write comes after
\* a successful header write and before any trailer write; the trailer is
\* written at most once, and a run that entered Streaming ends with exactly
\* one trailer write as the last call on the muxer.
C8_MuxerCallOrder ==
    /\ Cardinality(HeaderWrites) <= 1
    /\ Cardinality(TrailerWrites) <= 1
    /\ \A i \in PacketWrites :
          /\ \E j \in 1..(i - 1) : muxLog[j] = "header_ok"
          /\ \A j \in 1..(i - 1) : muxLog[j] # "trailer"
    /\ (pc = "done" /\ "header_ok" \in Range(muxLog))
          => (Cardinality(TrailerWrites) = 1 /\ muxLog[Len(muxLog)] = "trailer")

\* C9: a failed setup step ends the run with a nonzero status before
\* Streaming: nothing is read, submitted or written.
C9_SetupFailureAbortsBeforeStreaming ==
    SetupFailed =>
        /\ exited /\ exitCode # 0
        /\ ~Streaming /\ ~Flushing
        /\ nRead = 0
        /\ submitted = <<>>
        /\ PacketWrites = {}
        /\ written = <<>>

C9_Witness ==
    /\ "write_header" \in failed
    /\ exited

\* C10: with no video stream in the source the output context and output
\* file are never acquired and the muxer is never called.
C10_NoVideoNoOutput ==
    NoVideoStream =>
        /\ "output_ctx" \notin acquired
        /\ "output_io" \notin acquired
        /\ muxLog = <<>>
        /\ (pc \notin {"start", "open_input", "find_stream_info",
                       "find_video_stream"} => (exited /\ exitCode # 0))

C10_Witness ==
    /\ NoVideoStream
    /\ Len(in_streams) > 0
    /\ "find_video_stream" \in failed
    /\ exited

\* Positions of main() before the stream selection of lines 35-45 is done.
BeforeSelection == {"start", "open_input", "find_stream_info", "find_video_stream"}

\* Positions of main() up to and including the avcodec_open2 call.
BeforeEncoderOpen ==
    BeforeSelection \cup {"find_decoder", "alloc_encoder_ctx", "params_to_ctx",
                          "open_encoder"}

\* avcodec_open2 has returned success.
EncoderOpened ==
    /\ pc \notin BeforeEncoderOpen
    /\ pc = "done" => /\ "encoder" \in acquired
                      /\ failed \cap {"params_to_ctx", "open_encoder"} = {}

\* The packet read last belongs to a stream other than the selected one.
OtherStreamPacket == pkt_stream # -1 /\ pkt_stream # video_stream_index

\* C11: once selected, the stream index is that of a video stream and never
\* changes; while the packet read last is of another stream the next step
\* makes no encoder submission, no drain and no muxer call, only releases
\* the packet, and every read starts with the packet released.
C11_OnlySelectedStreamForwarded ==
    /\ [](pc \notin BeforeSelection /\ ~exited =>
            /\ video_stream_index \in 0..(Len(in_streams) - 1)
            /\ in_streams[video_stream_index + 1] = "video")
    /\ [][pc \notin BeforeSelection => video_stream_index' = video_stream_index]_vars
    /\ [][OtherStreamPacket =>
            /\ submitted' = submitted
            /\ emitted' = emitted
            /\ handed' = handed
            /\ muxLog' = muxLog
            /\ nRead' = nRead
            /\ pkt_stream' = -1]_vars
    /\ [](pc = "read" => pkt_stream = -1)

C11_Witness ==
    /\ pc = "read"
    /\ nRead = MaxPackets
    /\ nSelRead < nRead
    /\ nSelRead > 0
    /\ submitted # <<>>

\* C12: the packet just handed to the muxer has been rescaled exactly once,
\* from the input stream's time base to the time base of the output stream
\* video_stream_id, which exists.
C12_RescaledOnceToOutputTimeBase ==
    (handed # <<>> /\ handed[Len(handed)] = pkt.id) =>
        /\ pkt.rescales = 1
        /\ pkt.src = in_tb
        /\ OutputStreamExists(video_stream_id)
        /\ pkt.dst = out_tb

\* C13: the encoder session is opened with the exact product
\* bitrate * 1000, and the context still holds that value.
C13_BitRateIsExactProduct ==
    EncoderOpened =>
        /\ opened_bit_rate = ExactProduct(bitrate)
        /\ bit_rate = opened_bit_rate

\* C14: the packets handed to the muxer are the packets the encoder
\* returned, in the same order; the only packet that may be missing is the
\* one between its drain and its write.
C14_WrittenIsEmitted ==
    handed = IF pc \in {"write", "flush_write"}
             THEN SubSeq(emitted, 1, Len(emitted) - 1)
             ELSE emitted

\* C15: the number of packets passed to the muxer never exceeds the number
\* of selected-stream packets read, nor the number of frames submitted.
C15_OutputAtMostInput ==
    /\ Len(handed) <= nSelRead
    /\ Len(handed) <= Len(submitted)
    /\ Len(submitted) <= nSelRead
    /\ Len(written) <= Len(handed)
    /\ Cardinality(PacketWrites) <= nSelRead

C15_Witness ==
    /\ nSelRead = 2
    /\ Len(handed) = 2
    /\ Len(written) = 2

\* C16: started with an argument count other than 4, the program prints the
\* usage line and ends with a nonzero status; the codec library is not
\* initialised, nothing is acquired and the muxer is not called.
C16_BadArityExitsAtOnce ==
    argc # 4 =>
        /\ ~initDone
        /\ acquired = {}
        /\ muxLog = <<>>
        /\ nRead = 0
        /\ pc # "start" => /\ pc = "done"
                           /\ exited
                           /\ exitCode # 0
                           /\ "usage" \in stdout

C16_Witness ==
    /\ argc > 4
    /\ exited
    /\ "usage" \in stdout

\* C17: each packet passed to the muxer with a pts has a pts not below that
\* of the packet passed before it (where that one had a pts).
C17_PtsNonDecreasing ==
    [][(/\ mux_pts.any
        /\ Len(handed') > Len(handed)
        /\ mux_pts.last # AV_NOPTS_VALUE
        /\ mux_pts'.last # AV_NOPTS_VALUE)
          => mux_pts'.last >= mux_pts.last]_vars

\* The spec's controller state; Aborted is a run that began Streaming and
\* ended without reaching Finalized.
Phase ==
    IF Streaming THEN "Streaming"
    ELSE IF Flushing THEN "Flushing"
    ELSE IF Finalized THEN "Finalized"
    ELSE IF pc = "done" /\ "header_ok" \in Range(muxLog) THEN "Aborted"
    ELSE "Init"

PhaseSteps ==
    {<<"Init", "Streaming">>, <<"Streaming", "Flushing">>,
     <<"Flushing", "Finalized">>}

\* C18: a run whose setup succeeded moves through Streaming, Flushing and
\* Finalized in this order and ends in no other state.
C18_PhasesInOrder ==
    [][Phase' = Phase \/ <<Phase, Phase'>> \in PhaseSteps]_vars

\* C19: whenever the program is past setup, video_stream_id is the index of
\* a stream of the output container.
C19_OutputStreamIndexValid ==
    (Streaming \/ Flushing \/ handed # <<>>) => OutputStreamExists(video_stream_id)

====
